---- MODULE Spec2Model ----
(***************************************************************************)
(* Model of the notebook "ML/Save and load models.ipynb".                  *)
(*                                                                         *)
(* The notebook is a straight-line program over an interpreter state (the  *)
(* variables model, checkpoint_path, cp_callback, latest) and a file       *)
(* system holding three checkpoint directories.  Every statement of the    *)
(* notebook that changes that state is an instruction of Program; the      *)
(* training loop of model.fit is unrolled one batch per step, with the     *)
(* checkpoint callback run at the end of the batch and of the epoch.       *)
(*                                                                         *)
(* Strings are sequences of tokens, so that formatting a name is a         *)
(* computation and two rendered names are equal only if their characters   *)
(* are.  Weights are identified by the random initialisation they started  *)
(* from and the number of optimizer steps applied since.                   *)
(***************************************************************************)
EXTENDS Integers, Sequences, FiniteSets, TLC

\* Number of distinct random initialisations create_model() can draw.
MaxSeed == 2

\* train_images[:1000]
NumExamples == 1000
\* batch_size = 32
batch_size == 32
\* epochs=10 of the first model.fit
Epochs1 == 10
\* epochs=50 of the second model.fit
Epochs2 == 50
\* the factor of save_freq=5*batch_size
SaveFreqFactor == 5
\* batch size of a model.fit call that names none ("32/32" steps per epoch)
DefaultBatchSize == 32

Seeds == 0 .. (MaxSeed - 1)

-----------------------------------------------------------------------------
(* Paths and name templates *)

EpochField == "{epoch:04d}"

DigitChar == <<"0", "1", "2", "3", "4", "5", "6", "7", "8", "9">>

RECURSIVE Digits(_)
\* decimal digits of a natural number, most significant first
Digits(n) == IF n < 10 THEN <<DigitChar[n + 1]>>
             ELSE Digits(n \div 10) \o <<DigitChar[(n % 10) + 1]>>

RECURSIVE ZeroPad(_, _)
\* left-pad with "0" up to a minimum width
ZeroPad(s, width) == IF Len(s) >= width THEN s ELSE ZeroPad(<<"0">> \o s, width)

\* format(epoch, "04d")
Format04d(n) == ZeroPad(Digits(n), 4)

RECURSIVE FormatTokens(_, _)
FormatTokens(toks, epoch) ==
    IF toks = <<>> THEN <<>>
    ELSE (IF Head(toks) = EpochField THEN Format04d(epoch) ELSE <<Head(toks)>>)
         \o FormatTokens(Tail(toks), epoch)

\* checkpoint_path.format(epoch=epoch)
format(path, epoch) == [dir |-> path.dir, base |-> FormatTokens(path.base, epoch)]

\* os.path.dirname
dirname(path) == path.dir

\* checkpoint_path = "training_1/cp.ckpt"
Path1 == [dir |-> "training_1", base |-> <<"c", "p", ".ckpt">>]
\* checkpoint_path = "training_2/cp-{epoch:04d}.ckpt"
Path2 == [dir |-> "training_2", base |-> <<"c", "p", "-", EpochField, ".ckpt">>]
\* './checkpoints/my_checkpoint'
Path3 == [dir |-> "./checkpoints", base |-> <<"my_checkpoint">>]

NoPath == [dir |-> "", base |-> <<>>]

IndexFile(path) == [dir |-> path.dir, file |-> path.base \o <<".index">>]
DataFile(path) == [dir |-> path.dir, file |-> path.base \o <<".data-00000-of-00001">>]
StateFile(d) == [dir |-> d, file |-> <<"checkpoint">>]

-----------------------------------------------------------------------------
(* The model and its weights *)

ParamKeys == {"dense/kernel", "dense/bias", "dense_1/kernel", "dense_1/bias"}

Shape(k) == CASE k = "dense/kernel" -> <<784, 512>>
              [] k = "dense/bias" -> <<512>>
              [] k = "dense_1/kernel" -> <<512, 10>>
              [] k = "dense_1/bias" -> <<10>>

\* a fresh, untrained model: every parameter at its random initial value
create_model(seed) ==
    [k \in ParamKeys |-> [shape |-> Shape(k), value |-> [seed |-> seed, steps |-> 0]]]

\* one optimizer step on one batch: every trainable parameter moves
train_step(m) ==
    [k \in DOMAIN m |->
        [shape |-> m[k].shape,
         value |-> [seed |-> m[k].value.seed, steps |-> m[k].value.steps + 1]]]

-----------------------------------------------------------------------------
(* The checkpoint files *)

\* save_weights that leaves the files of an existing checkpoint as they are
save_weights_noclobber(f, path, m) ==
    LET new == {IndexFile(path), DataFile(path), StateFile(dirname(path))}
    IN  [p \in (DOMAIN f) \cup new |->
            IF p \in DOMAIN f /\ p # StateFile(dirname(path)) THEN f[p]
            ELSE CASE p = DataFile(path) ->
                        [kind |-> "data", values |-> [k \in DOMAIN m |-> m[k].value]]
                   [] p = IndexFile(path) ->
                        [kind |-> "index", shapes |-> [k \in DOMAIN m |-> m[k].shape]]
                   [] OTHER ->
                        [kind |-> "state", model_checkpoint_path |-> path.base]]

\* save_weights that writes the "checkpoint" file only when the directory has none
save_weights_stale_state(f, path, m) ==
    LET new == {IndexFile(path), DataFile(path), StateFile(dirname(path))}
    IN  [p \in (DOMAIN f) \cup new |->
            CASE p = DataFile(path) ->
                    [kind |-> "data", values |-> [k \in DOMAIN m |-> m[k].value]]
              [] p = IndexFile(path) ->
                    [kind |-> "index", shapes |-> [k \in DOMAIN m |-> m[k].shape]]
              [] p = StateFile(dirname(path)) /\ p \notin DOMAIN f ->
                    [kind |-> "state", model_checkpoint_path |-> path.base]
              [] OTHER -> f[p]]

\* save_weights whose "checkpoint" file names the index file, not the prefix
save_weights_bad_pointer(f, path, m) ==
    LET new == {IndexFile(path), DataFile(path), StateFile(dirname(path))}
    IN  [p \in (DOMAIN f) \cup new |->
            CASE p = DataFile(path) ->
                    [kind |-> "data", values |-> [k \in DOMAIN m |-> m[k].value]]
              [] p = IndexFile(path) ->
                    [kind |-> "index", shapes |-> [k \in DOMAIN m |-> m[k].shape]]
              [] p = StateFile(dirname(path)) ->
                    [kind |-> "state",
                     model_checkpoint_path |-> IndexFile(path).file]
              [] OTHER -> f[p]]

\* Model.save_weights(path): one shard with the values, an index of which
\* weights are stored in the shard, and the directory's "checkpoint" file
\* naming the checkpoint just written.
save_weights(f, path, m) ==
    LET new == {IndexFile(path), DataFile(path), StateFile(dirname(path))}
    IN  [p \in (DOMAIN f) \cup new |->
            CASE p = DataFile(path) ->
                    [kind |-> "data", values |-> [k \in DOMAIN m |-> m[k].value]]
              [] p = IndexFile(path) ->
                    [kind |-> "index", shapes |-> [k \in DOMAIN m |-> m[k].shape]]
              [] p = StateFile(dirname(path)) ->
                    [kind |-> "state", model_checkpoint_path |-> path.base]
              [] OTHER -> f[p]]

\* whether both files of a checkpoint are in the file system
Exists(f, path) == IndexFile(path) \in DOMAIN f /\ DataFile(path) \in DOMAIN f

\* the mapping stored in a checkpoint
ReadCheckpoint(f, path) ==
    [k \in DOMAIN f[IndexFile(path)].shapes |->
        [shape |-> f[IndexFile(path)].shapes[k],
         value |-> f[DataFile(path)].values[k]]]

\* load_weights that leaves every parameter the target already has
load_weights_keep(f, path, m) ==
    [k \in DOMAIN ReadCheckpoint(f, path) |->
        IF k \in DOMAIN m THEN m[k] ELSE ReadCheckpoint(f, path)[k]]

\* Model.load_weights(path) into a model built by create_model()
load_weights(f, path, m) == ReadCheckpoint(f, path)

\* tf.train.latest_checkpoint(checkpoint_dir)
latest_checkpoint(f, d) ==
    IF StateFile(d) \in DOMAIN f
    THEN LET p == [dir |-> d, base |-> f[StateFile(d)].model_checkpoint_path]
         IN  IF Exists(f, p) THEN p ELSE NoPath
    ELSE NoPath

\* os.listdir(checkpoint_dir)
listdir(f, d) == {p.file : p \in {q \in DOMAIN f : q.dir = d}}

-----------------------------------------------------------------------------
(* The notebook *)

VARIABLES
    pc,               \* index in Program of the next statement to run
    model,            \* the weights of the Python variable model
    checkpoint_path,  \* the Python variable checkpoint_path
    checkpoint_dir,   \* the Python variable checkpoint_dir
    cp_callback,      \* the ModelCheckpoint callback: filepath and save_freq
    latest,           \* the Python variable latest
    listing,          \* the value of the last os.listdir cell
    fs,               \* the file system: path -> file content
    epoch,            \* model.fit: epochs completed so far
    batch,            \* model.fit: batches completed in the current epoch
    seen,             \* ModelCheckpoint: batches seen since the last saving
    saves,            \* history: every save_weights call, <<path, weights>>
    restored          \* history: the path given to the last load_weights

vars == <<pc, model, checkpoint_path, checkpoint_dir, cp_callback, latest,
          listing, fs, epoch, batch, seen, saves, restored>>

\* The statements of the notebook that change the state, in cell order
\* (the cell that builds the first model is Init).
Program == <<
    [op |-> "callback", path |-> Path1, mode |-> "epoch", n |-> 0],
    [op |-> "fit", epochs |-> Epochs1, batch_size |-> DefaultBatchSize],
    [op |-> "listdir"],
    [op |-> "create"],
    [op |-> "load", arg |-> "checkpoint_path"],
    [op |-> "callback", path |-> Path2, mode |-> "batches",
     n |-> SaveFreqFactor * batch_size],
    [op |-> "create"],
    [op |-> "save", arg |-> "format0"],
    [op |-> "fit", epochs |-> Epochs2, batch_size |-> batch_size],
    [op |-> "listdir"],
    [op |-> "latest"],
    [op |-> "create"],
    [op |-> "load", arg |-> "latest"],
    [op |-> "save", arg |-> "my_checkpoint"],
    [op |-> "create"],
    [op |-> "load", arg |-> "my_checkpoint"] >>

Done == Len(Program) + 1
\* the notebook stopped on an exception
Failed == 0

Running == pc \in 1 .. Len(Program)

\* the path a save_weights / load_weights statement is called with
Arg(a) == CASE a = "checkpoint_path" -> checkpoint_path
            [] a = "format0" -> format(checkpoint_path, 0)
            [] a = "latest" -> latest
            [] a = "my_checkpoint" -> Path3

\* number of batches of one epoch
StepsPerEpoch(bs) == (NumExamples + bs - 1) \div bs

\* end-of-batch test that compares the count before the current batch is added
should_save_on_batch_late(cb, cnt) == cb.mode = "batches" /\ cnt >= cb.n

\* ModelCheckpoint, end of a batch: with an integer save_freq the callback
\* saves once that many batches were seen since the last saving
should_save_on_batch(cb, cnt) == cb.mode = "batches" /\ cnt + 1 >= cb.n

\* ModelCheckpoint, end of an epoch: the default save_freq saves every epoch
should_save_on_epoch(cb) == cb.mode = "epoch"

\* the file the callback saves to in (zero-based) epoch e
get_file_path(cb, e) == format(cb.filepath, e + 1)

Init ==
    /\ pc = 1
    /\ model \in {create_model(s) : s \in Seeds}
    /\ checkpoint_path = NoPath
    /\ checkpoint_dir = ""
    /\ cp_callback = [filepath |-> NoPath, mode |-> "epoch", n |-> 0]
    /\ latest = NoPath
    /\ listing = {}
    /\ fs = [p \in {} |-> [kind |-> "none"]]
    /\ epoch = 0
    /\ batch = 0
    /\ seen = 0
    /\ saves = <<>>
    /\ restored = NoPath

\* model = create_model()
CreateModel ==
    /\ Running /\ Program[pc].op = "create"
    /\ \E s \in Seeds : model' = create_model(s)
    /\ pc' = pc + 1
    /\ UNCHANGED <<checkpoint_path, checkpoint_dir, cp_callback, latest, listing,
                   fs, epoch, batch, seen, saves, restored>>

\* checkpoint_path = ...; checkpoint_dir = os.path.dirname(checkpoint_path);
\* cp_callback = tf.keras.callbacks.ModelCheckpoint(filepath=checkpoint_path, ...)
MakeCallback ==
    /\ Running /\ Program[pc].op = "callback"
    /\ checkpoint_path' = Program[pc].path
    /\ checkpoint_dir' = dirname(Program[pc].path)
    /\ cp_callback' = [filepath |-> Program[pc].path, mode |-> Program[pc].mode,
                       n |-> Program[pc].n]
    /\ seen' = 0
    /\ pc' = pc + 1
    /\ UNCHANGED <<model, latest, listing, fs, epoch, batch, saves, restored>>

\* model.save_weights(path)
SaveWeights ==
    /\ Running /\ Program[pc].op = "save"
    /\ LET path == Arg(Program[pc].arg)
       IN  /\ fs' = save_weights(fs, path, model)
           /\ saves' = Append(saves, <<path, model>>)
    /\ pc' = pc + 1
    /\ UNCHANGED <<model, checkpoint_path, checkpoint_dir, cp_callback, latest,
                   listing, epoch, batch, seen, restored>>

\* model.load_weights(path); a checkpoint that is not there raises
LoadWeights ==
    /\ Running /\ Program[pc].op = "load"
    /\ LET path == Arg(Program[pc].arg)
       IN  IF Exists(fs, path)
           THEN /\ model' = load_weights(fs, path, model)
                /\ restored' = path
                /\ pc' = pc + 1
           ELSE /\ pc' = Failed
                /\ UNCHANGED <<model, restored>>
    /\ UNCHANGED <<checkpoint_path, checkpoint_dir, cp_callback, latest, listing,
                   fs, epoch, batch, seen, saves>>

\* os.listdir(checkpoint_dir)
ListDir ==
    /\ Running /\ Program[pc].op = "listdir"
    /\ listing' = listdir(fs, checkpoint_dir)
    /\ pc' = pc + 1
    /\ UNCHANGED <<model, checkpoint_path, checkpoint_dir, cp_callback, latest,
                   fs, epoch, batch, seen, saves, restored>>

\* latest = tf.train.latest_checkpoint(checkpoint_dir)
Latest ==
    /\ Running /\ Program[pc].op = "latest"
    /\ latest' = latest_checkpoint(fs, checkpoint_dir)
    /\ pc' = pc + 1
    /\ UNCHANGED <<model, checkpoint_path, checkpoint_dir, cp_callback, listing,
                   fs, epoch, batch, seen, saves, restored>>

\* model.fit(..., callbacks=[cp_callback]): one batch of training, then the
\* callback's end-of-batch hook and, after the last batch of an epoch, its
\* end-of-epoch hook; fit returns after the last epoch.
FitBatch ==
    /\ Running /\ Program[pc].op = "fit"
    /\ LET ins == Program[pc]
           trained == train_step(model)
           onBatch == should_save_on_batch(cp_callback, seen)
           lastBatch == batch + 1 = StepsPerEpoch(ins.batch_size)
           onEpoch == lastBatch /\ should_save_on_epoch(cp_callback)
           path == get_file_path(cp_callback, epoch)
       IN  /\ model' = trained
           /\ seen' = IF cp_callback.mode = "batches"
                      THEN (IF onBatch THEN 0 ELSE seen + 1)
                      ELSE seen
           /\ IF onBatch \/ onEpoch
              THEN /\ fs' = save_weights(fs, path, trained)
                   /\ saves' = Append(saves, <<path, trained>>)
              ELSE UNCHANGED <<fs, saves>>
           /\ IF lastBatch
              THEN /\ batch' = 0
                   /\ IF epoch + 1 = ins.epochs
                      THEN epoch' = 0 /\ pc' = pc + 1
                      ELSE epoch' = epoch + 1 /\ pc' = pc
              ELSE /\ batch' = batch + 1
                   /\ UNCHANGED <<epoch, pc>>
    /\ UNCHANGED <<checkpoint_path, checkpoint_dir, cp_callback, latest, listing,
                   restored>>

Next ==
    \/ CreateModel
    \/ MakeCallback
    \/ SaveWeights
    \/ LoadWeights
    \/ ListDir
    \/ Latest
    \/ FitBatch

Spec == Init /\ [][Next]_vars

-----------------------------------------------------------------------------
(* Properties *)

Dirs == {"training_1", "training_2", "./checkpoints"}

\* the checkpoints a directory holds, by their index files
Checkpoints(f, d) ==
    {[dir |-> d, base |-> SubSeq(q.file, 1, Len(q.file) - 1)] :
        q \in {r \in DOMAIN f : r.dir = d /\ r.file[Len(r.file)] = ".index"}}

\* the save_weights calls made on directory d, oldest first
SavesIn(d) == SelectSeq(saves, LAMBDA e : e[1].dir = d)

\* the paths saved to so far
SavedPaths == {saves[i][1] : i \in DOMAIN saves}

\* the weights of the last save_weights call made on path p
LastSaved(p) ==
    LET idx == {i \in DOMAIN saves : saves[i][1] = p}
    IN  saves[CHOOSE i \in idx : \A j \in idx : j <= i][2]

\* the statement just run was a load_weights
AfterLoad == pc \in 2 .. Done /\ Program[pc - 1].op = "load"

\* C1: round trip.  Right after load_weights(N) has run, the model holds exactly
\* the mapping given to the last save_weights(N): the same parameter keys, the
\* same shapes and the same values.
C1_RoundTrip ==
    AfterLoad =>
        /\ restored \in SavedPaths
        /\ DOMAIN model = DOMAIN LastSaved(restored)
        /\ \A k \in DOMAIN model :
              /\ model[k].shape = LastSaved(restored)[k].shape
              /\ model[k].value = LastSaved(restored)[k].value

\* the manual save of './checkpoints/my_checkpoint' was loaded into a fresh model
C1_Witness ==
    /\ pc = Done
    /\ restored = Path3
    /\ saves[Len(saves)][1] = Path3
    /\ model = saves[Len(saves)][2]
    /\ model["dense/kernel"].value.steps > 0

C6_Overwrite ==
    /\ \A p \in SavedPaths :
          /\ Exists(fs, p)
          /\ ReadCheckpoint(fs, p) = LastSaved(p)
    /\ \A d \in Dirs :
          Checkpoints(fs, d) = {p \in SavedPaths : p.dir = d}
    /\ (pc \in 4 .. 10 =>
          listing = {IndexFile(Path1).file, DataFile(Path1).file,
                     StateFile("training_1").file})
    /\ (pc = 6 =>
          /\ Len(SavesIn("training_1")) = Epochs1
          /\ model = SavesIn("training_1")[Epochs1][2])

\* ten saves under one name, the first and the last with different weights,
\* and the last one loaded
C6_Witness ==
    /\ pc = 6
    /\ Len(saves) = 10
    /\ \A i \in 1 .. 10 : saves[i][1] = Path1
    /\ saves[1][2] # saves[10][2]
    /\ model = saves[10][2]
    /\ Cardinality(listing) = 3

\* C7: latest resolution.  After M saves to a directory, latest_checkpoint names
\* the path of the M-th save and that checkpoint holds the weights of the M-th
\* save; in the unique-name flow latest is training_2/cp-0050.ckpt and
\* load_weights(latest) gives the weights of the last save.
C7_Latest ==
    /\ \A d \in Dirs :
          LET s == SavesIn(d)
          IN  Len(s) > 0 =>
                /\ latest_checkpoint(fs, d) = s[Len(s)][1]
                /\ ReadCheckpoint(fs, latest_checkpoint(fs, d)) = s[Len(s)][2]
    /\ (pc >= 12 =>
          latest = [dir |-> "training_2",
                    base |-> <<"c", "p", "-", "0", "0", "5", "0", ".ckpt">>])
    /\ (pc = 14 =>
          LET s == SavesIn("training_2")
          IN  restored = latest /\ model = s[Len(s)][2])

\* the eleven saves of the unique-name flow are done and latest was loaded
C7_Witness ==
    /\ pc = 14
    /\ Len(SavesIn("training_2")) = 11
    /\ restored = format(Path2, Epochs2)
    /\ model["dense/bias"].value.steps = Epochs2 * StepsPerEpoch(batch_size)

\* C10: with default settings only the 5 most recent checkpoints are kept: after
\* the 11 saves of the unique-name flow the directory holds the 5 checkpoints
\* saved last and no other.
C10_KeepsFiveMostRecent ==
    pc >= 10 =>
        LET s == SavesIn("training_2")
        IN  Checkpoints(fs, "training_2") =
                {s[i][1] : i \in {j \in DOMAIN s : j > Len(s) - 5}}

\* the model.fit of the unique-name flow is running
InFit2 == Running /\ Program[pc].op = "fit" /\ cp_callback.filepath = Path2

\* C11: in the unique-name flow the callback saves once every five epochs.  While
\* the fit runs, the saves made to training_2 are the manual one and one per five
\* completed epochs; the i-th automatic save is made at the end of epoch 5*i,
\* under the name rendered from that epoch; all names differ, no save replaced
\* a checkpoint, and after the fit 11 distinct checkpoints were written.
C11_SavesEveryFiveEpochs ==
    LET s == SavesIn("training_2")
        steps == StepsPerEpoch(batch_size)
    IN  /\ (InFit2 => Len(s) = 1 + (epoch \div SaveFreqFactor))
        /\ (pc > 9 => Len(s) = 1 + (Epochs2 \div SaveFreqFactor) /\ Len(s) = 11)
        /\ \A i \in DOMAIN s :
              /\ s[i][1] = format(Path2, SaveFreqFactor * (i - 1))
              /\ s[i][2]["dense/kernel"].value.steps = SaveFreqFactor * (i - 1) * steps
        /\ \A i, j \in DOMAIN s : i # j => s[i][1] # s[j][1]
        /\ Cardinality(Checkpoints(fs, "training_2")) = Len(s)

\* the fit of the unique-name flow has returned: the last save was made at the
\* end of epoch 50 under cp-0050, the one before under cp-0045
C11_Witness ==
    LET s == SavesIn("training_2")
    IN  /\ pc = 10
        /\ Len(s) = 11
        /\ s[11][1].base = <<"c", "p", "-", "0", "0", "5", "0", ".ckpt">>
        /\ s[10][1].base = <<"c", "p", "-", "0", "0", "4", "5", ".ckpt">>
        /\ s[2][1].base = <<"c", "p", "-", "0", "0", "0", "5", ".ckpt">>
        /\ Cardinality(Checkpoints(fs, "training_2")) = 11

====
